---- MODULE Spec2Model ----
(***************************************************************************)
(* A model of voice-to-org-roam:                                           *)
(*   - lib/record_voice.py: VoiceRecorder (producer thread record_chunk,   *)
(*     consumer thread process_audio, controller record) and record_voice; *)
(*   - lib/text_processor.py: TextProcessor.process_meeting_notes,         *)
(*     process_general_notes and _extract_tags.                            *)
(* Text is a sequence of one-character strings, so that lower(), the       *)
(* substring test, split() and join() are computed as Python computes them.*)
(***************************************************************************)
EXTENDS Integers, Sequences, FiniteSets, TLC

(***************************************************************************)
(* Bounds of the model.                                                    *)
(***************************************************************************)
\* Number of audio segments recognizer.listen() returns in one session.
MaxCaptures == 3
\* Length of the texts drawn as arguments of a function called alone.
MaxTextLen == 4

(***************************************************************************)
(* Text helpers (Python str operations).                                   *)
(***************************************************************************)
UpperLetters == <<"A","B","C","D","E","F","G","H","I","J","K","L","M",
                  "N","O","P","Q","R","S","T","U","V","W","X","Y","Z">>
LowerLetters == <<"a","b","c","d","e","f","g","h","i","j","k","l","m",
                  "n","o","p","q","r","s","t","u","v","w","x","y","z">>

\* str.lower() on one character.
LowerChar(c) ==
    IF \E i \in 1..26 : UpperLetters[i] = c
    THEN LowerLetters[CHOOSE i \in 1..26 : UpperLetters[i] = c]
    ELSE c

\* text.lower()
Lower(text) == [i \in 1..Len(text) |-> LowerChar(text[i])]

\* phrase in text  (Python substring test)
Contains(phrase, text) ==
    \E i \in 0..(Len(text) - Len(phrase)) :
        SubSeq(text, i + 1, i + Len(phrase)) = phrase

\* sep.join(list)
RECURSIVE Join(_, _)
Join(sep, list) ==
    IF list = <<>> THEN <<>>
    ELSE IF Len(list) = 1 THEN list[1]
    ELSE list[1] \o sep \o Join(sep, Tail(list))

\* " ".join(self.text_segments)
JoinSegments(segments) == Join(<<" ">>, segments)

(***************************************************************************)
(* VoiceRecorder configuration and inputs.                                 *)
(***************************************************************************)
StopRecording   == <<"s","t","o","p"," ","r","e","c","o","r","d","i","n","g">>
EndRecording    == <<"e","n","d"," ","r","e","c","o","r","d","i","n","g">>
FinishRecording == <<"f","i","n","i","s","h"," ","r","e","c","o","r","d","i","n","g">>

\* self.stop_phrases as record_voice() constructs the recorder (no stop_phrases
\* argument, so the default list is used).
stop_phrases == <<StopRecording, EndRecording, FinishRecording>>

\* Texts recognize_google() may return for a segment.
AliceMetBob == <<"A","l","i","c","e"," ","m","e","t"," ","B","o","b",".">>
Ok          == <<"o","k">>
OkStopRecordingNow ==
    <<"O","k"," ","S","t","o","p"," ","R","e","c","o","r","d","i","n","g"," ","n","o","w">>
RecordingStop ==
    <<"r","e","c","o","r","d","i","n","g"," ","s","t","o","p">>
Texts == {AliceMetBob, Ok, StopRecording, OkStopRecordingNow, RecordingStop}

\* any(phrase in text.lower() for phrase in self.stop_phrases)
StopCommandDetected(phrases, text) ==
    \E k \in 1..Len(phrases) : Contains(phrases[k], Lower(text))

\* queue.Queue.get on a non-empty queue: the oldest item and the rest.
QueueGetNewest(q) == [item |-> q[Len(q)], rest |-> SubSeq(q, 1, Len(q) - 1)]
QueueGet(q) == [item |-> Head(q), rest |-> Tail(q)]

\* queue.Queue.put on the queue built by queue.Queue(): maxsize is 0, so put
\* never blocks and never drops.
QueuePut(q, item) == Append(q, item)

\* queue.Queue.get(timeout=1) raises queue.Empty only when the queue stayed
\* empty for the whole wait.
GetBlocksForever(q) == FALSE
GetRaisesEmpty(q) == q = <<>>

(***************************************************************************)
(* State of one record_voice() call.                                       *)
(***************************************************************************)
VARIABLES
    is_recording,    \* self.is_recording
    audio_queue,     \* self.audio_queue: sequence of segment numbers
    text_segments,   \* self.text_segments: sequence of texts
    main,            \* position of record_voice()/record() (controller)
    record_thread,   \* position of record_chunk (producer thread)
    process_thread,  \* position of process_audio (consumer thread)
    audio,           \* process_audio's local `audio` (0: none)
    session,         \* what record_voice() gives its caller
    captured,        \* history: number of segments listen() has returned
    outcome,         \* history: what recognize_google() did with each segment
    dequeued,        \* history: segment numbers in the order get() returned them
    stopped_by       \* history: the stop requests made so far

rvars == <<is_recording, audio_queue, text_segments, main, record_thread,
           process_thread, audio, session, captured, outcome, dequeued,
           stopped_by>>

(***************************************************************************)
(* State of one TextProcessor.                                             *)
(***************************************************************************)
VARIABLES
    note_pc,         \* position of the caller / of the awaited coroutine
    raw_text,        \* the raw_text argument of the call in progress
    default_tags,    \* self.config.default_tags
    result,          \* the ProcessedText returned by the last call
    raised,          \* the exception the last call propagated (<<>>: none)
    method,          \* history: the method of the last call
    backend          \* history: what the backend did in the last call

nvars == <<note_pc, raw_text, default_tags, result, raised, method, backend>>

(***************************************************************************)
(* State of one call of a function taken alone (LocalModel.process_text,   *)
(* the stop-command test, _extract_tags).                                  *)
(***************************************************************************)
VARIABLES
    fn_pc,           \* position of the call
    fn_in,           \* its arguments
    fn_out           \* its return value

fvars == <<fn_pc, fn_in, fn_out>>

NoOutcome == [kind |-> "none", text |-> <<>>]
NoSession == [kind |-> "running", text |-> <<>>]

RecorderInit ==
    /\ is_recording = FALSE
    /\ audio_queue = <<>>
    /\ text_segments = <<>>
    /\ main = "calibrate"
    /\ record_thread = "unstarted"
    /\ process_thread = "unstarted"
    /\ audio = 0
    /\ session = NoSession
    /\ captured = 0
    /\ outcome = [i \in 1..MaxCaptures |-> NoOutcome]
    /\ dequeued = <<>>
    /\ stopped_by = {}

(***************************************************************************)
(* record() and record_voice(): the controller.                            *)
(***************************************************************************)
\* sr.Microphone(...) is opened and adjust_for_ambient_noise() returns; then
\* self.is_recording = True.
record_calibrate ==
    /\ main = "calibrate"
    /\ is_recording' = TRUE
    /\ main' = "start_record_thread"
    /\ UNCHANGED <<audio_queue, text_segments, record_thread, process_thread,
                   audio, session, captured, outcome, dequeued, stopped_by>>
    /\ UNCHANGED nvars
    /\ UNCHANGED fvars

\* Opening the microphone or calibrating raises: record_voice() logs the
\* exception and calls sys.exit(1).
record_device_unavailable ==
    /\ main = "calibrate"
    /\ main' = "done"
    /\ session' = [kind |-> "exit", text |-> <<>>]
    /\ UNCHANGED <<is_recording, audio_queue, text_segments, record_thread,
                   process_thread, audio, captured, outcome, dequeued,
                   stopped_by>>
    /\ UNCHANGED nvars
    /\ UNCHANGED fvars

\* record_thread.start()
record_start_record_thread ==
    /\ main = "start_record_thread"
    /\ record_thread' = "loop"
    /\ main' = "start_process_thread"
    /\ UNCHANGED <<is_recording, audio_queue, text_segments, process_thread,
                   audio, session, captured, outcome, dequeued, stopped_by>>
    /\ UNCHANGED nvars
    /\ UNCHANGED fvars

\* process_thread.start()
record_start_process_thread ==
    /\ main = "start_process_thread"
    /\ process_thread' = "loop"
    /\ main' = "wait"
    /\ UNCHANGED <<is_recording, audio_queue, text_segments, record_thread,
                   audio, session, captured, outcome, dequeued, stopped_by>>
    /\ UNCHANGED nvars
    /\ UNCHANGED fvars

\* while self.is_recording: time.sleep(0.1)  -- the loop ends when the flag
\* is seen cleared.
record_wait ==
    /\ main = "wait"
    /\ ~is_recording
    /\ main' = "join_record_thread"
    /\ UNCHANGED <<is_recording, audio_queue, text_segments, record_thread,
                   process_thread, audio, session, captured, outcome,
                   dequeued, stopped_by>>
    /\ UNCHANGED nvars
    /\ UNCHANGED fvars

\* except KeyboardInterrupt: self.is_recording = False
record_interrupt ==
    /\ main = "wait"
    /\ is_recording' = FALSE
    /\ stopped_by' = stopped_by \cup {"interrupt"}
    /\ main' = "join_record_thread"
    /\ UNCHANGED <<audio_queue, text_segments, record_thread, process_thread,
                   audio, session, captured, outcome, dequeued>>
    /\ UNCHANGED nvars
    /\ UNCHANGED fvars

\* record_thread.join()
record_join_record_thread ==
    /\ main = "join_record_thread"
    /\ record_thread = "done"
    /\ main' = "join_process_thread"
    /\ UNCHANGED <<is_recording, audio_queue, text_segments, record_thread,
                   process_thread, audio, session, captured, outcome,
                   dequeued, stopped_by>>
    /\ UNCHANGED nvars
    /\ UNCHANGED fvars

\* A variant of record_join_process_thread that does not wait for the
\* consumer to exit (a join that gives up).
record_join_process_thread_gives_up ==
    /\ main = "join_process_thread"
    /\ session' = [kind |-> "recorded", text |-> JoinSegments(text_segments)]
    /\ main' = "returned"
    /\ UNCHANGED <<is_recording, audio_queue, text_segments, record_thread,
                   process_thread, audio, captured, outcome, dequeued,
                   stopped_by>>
    /\ UNCHANGED nvars
    /\ UNCHANGED fvars

\* process_thread.join(); return " ".join(self.text_segments)
record_join_process_thread ==
    /\ main = "join_process_thread"
    /\ process_thread = "done"
    /\ session' = [kind |-> "recorded", text |-> JoinSegments(text_segments)]
    /\ main' = "returned"
    /\ UNCHANGED <<is_recording, audio_queue, text_segments, record_thread,
                   process_thread, audio, captured, outcome, dequeued,
                   stopped_by>>
    /\ UNCHANGED nvars
    /\ UNCHANGED fvars

\* record_voice(): if text: return text / else: sys.exit(1)
RecordVoiceResult(text) ==
    IF text # <<>>
    THEN [kind |-> "transcript", text |-> text]
    ELSE [kind |-> "exit", text |-> <<>>]

record_voice_result ==
    /\ main = "returned"
    /\ session' = RecordVoiceResult(session.text)
    /\ main' = "done"
    /\ UNCHANGED <<is_recording, audio_queue, text_segments, record_thread,
                   process_thread, audio, captured, outcome, dequeued,
                   stopped_by>>
    /\ UNCHANGED nvars
    /\ UNCHANGED fvars

(***************************************************************************)
(* record_chunk(): the producer thread.                                    *)
(***************************************************************************)
\* A variant of record_chunk_loop that does not look at the flag.
record_chunk_loop_forever ==
    /\ record_thread = "loop"
    /\ record_thread' = "call"
    /\ UNCHANGED <<is_recording, audio_queue, text_segments, main,
                   process_thread, audio, session, captured, outcome,
                   dequeued, stopped_by>>
    /\ UNCHANGED nvars
    /\ UNCHANGED fvars

\* while self.is_recording:
record_chunk_loop ==
    /\ record_thread = "loop"
    /\ record_thread' = IF is_recording THEN "call" ELSE "done"
    /\ UNCHANGED <<is_recording, audio_queue, text_segments, main,
                   process_thread, audio, session, captured, outcome,
                   dequeued, stopped_by>>
    /\ UNCHANGED nvars
    /\ UNCHANGED fvars

\* logger.debug("Listening for next chunk..."), then the call of
\* self.recognizer.listen(source, timeout=2, phrase_time_limit=None) begins.
record_chunk_call ==
    /\ record_thread = "call"
    /\ record_thread' = "listen"
    /\ UNCHANGED <<is_recording, audio_queue, text_segments, main,
                   process_thread, audio, session, captured, outcome,
                   dequeued, stopped_by>>
    /\ UNCHANGED nvars
    /\ UNCHANGED fvars

\* audio = self.recognizer.listen(...) returns; self.audio_queue.put(audio)
record_chunk_listen ==
    /\ record_thread = "listen"
    /\ captured < MaxCaptures
    /\ captured' = captured + 1
    /\ audio_queue' = QueuePut(audio_queue, captured + 1)
    /\ record_thread' = "loop"
    /\ UNCHANGED <<is_recording, text_segments, main, process_thread, audio,
                   session, outcome, dequeued, stopped_by>>
    /\ UNCHANGED nvars
    /\ UNCHANGED fvars

\* A variant of record_chunk_timeout that sets the flag again to keep
\* listening.
record_chunk_timeout_rearms ==
    /\ record_thread = "listen"
    /\ is_recording' = TRUE
    /\ record_thread' = "loop"
    /\ UNCHANGED <<audio_queue, text_segments, main, process_thread, audio,
                   session, captured, outcome, dequeued, stopped_by>>
    /\ UNCHANGED nvars
    /\ UNCHANGED fvars

\* except sr.WaitTimeoutError: continue
record_chunk_timeout ==
    /\ record_thread = "listen"
    /\ record_thread' = "loop"
    /\ UNCHANGED <<is_recording, audio_queue, text_segments, main,
                   process_thread, audio, session, captured, outcome,
                   dequeued, stopped_by>>
    /\ UNCHANGED nvars
    /\ UNCHANGED fvars

\* except Exception as e: self.is_recording = False  (listen() raised
\* anything but WaitTimeoutError: a device error)
record_chunk_error ==
    /\ record_thread = "listen"
    /\ is_recording' = FALSE
    /\ stopped_by' = stopped_by \cup {"device_error"}
    /\ record_thread' = "done"
    /\ UNCHANGED <<audio_queue, text_segments, main, process_thread, audio,
                   session, captured, outcome, dequeued>>
    /\ UNCHANGED nvars
    /\ UNCHANGED fvars

(***************************************************************************)
(* process_audio(): the consumer thread.                                   *)
(***************************************************************************)
\* while self.is_recording or not self.audio_queue.empty():
process_audio_loop ==
    /\ process_thread = "loop"
    /\ process_thread' = IF is_recording \/ audio_queue # <<>>
                         THEN "get" ELSE "done"
    /\ UNCHANGED <<is_recording, audio_queue, text_segments, main,
                   record_thread, audio, session, captured, outcome,
                   dequeued, stopped_by>>
    /\ UNCHANGED nvars
    /\ UNCHANGED fvars

\* audio = self.audio_queue.get(timeout=1) returns a segment
process_audio_get ==
    /\ process_thread = "get"
    /\ audio_queue # <<>>
    /\ audio' = QueueGet(audio_queue).item
    /\ audio_queue' = QueueGet(audio_queue).rest
    /\ dequeued' = Append(dequeued, QueueGet(audio_queue).item)
    /\ process_thread' = "recognize"
    /\ UNCHANGED <<is_recording, text_segments, main, record_thread, session,
                   captured, outcome, stopped_by>>
    /\ UNCHANGED nvars
    /\ UNCHANGED fvars

\* A variant of process_audio_empty that leaves the loop on an empty queue.
process_audio_empty_exits ==
    /\ process_thread = "get"
    /\ GetRaisesEmpty(audio_queue)
    /\ process_thread' = "done"
    /\ UNCHANGED <<is_recording, audio_queue, text_segments, main,
                   record_thread, audio, session, captured, outcome,
                   dequeued, stopped_by>>
    /\ UNCHANGED nvars
    /\ UNCHANGED fvars

\* except queue.Empty: continue
process_audio_empty ==
    /\ process_thread = "get"
    /\ GetRaisesEmpty(audio_queue)
    /\ process_thread' = "loop"
    /\ UNCHANGED <<is_recording, audio_queue, text_segments, main,
                   record_thread, audio, session, captured, outcome,
                   dequeued, stopped_by>>
    /\ UNCHANGED nvars
    /\ UNCHANGED fvars

\* Variants of process_audio_text with a defect, used to test the properties:
\* the stop command clears the flag but does not leave the loop ...
process_audio_text_no_break(text) ==
    /\ process_thread = "recognize"
    /\ outcome' = [outcome EXCEPT ![audio] = [kind |-> "text", text |-> text]]
    /\ IF StopCommandDetected(stop_phrases, text)
       THEN /\ is_recording' = FALSE
            /\ stopped_by' = stopped_by \cup {"phrase"}
            /\ UNCHANGED text_segments
       ELSE /\ text_segments' = Append(text_segments, text)
            /\ UNCHANGED <<is_recording, stopped_by>>
    /\ process_thread' = "loop"
    /\ UNCHANGED <<audio_queue, main, record_thread, audio, session, captured,
                   dequeued>>
    /\ UNCHANGED nvars
    /\ UNCHANGED fvars

\* ... and the text is appended before the stop command is looked for.
process_audio_text_append_first(text) ==
    /\ process_thread = "recognize"
    /\ outcome' = [outcome EXCEPT ![audio] = [kind |-> "text", text |-> text]]
    /\ text_segments' = Append(text_segments, text)
    /\ IF StopCommandDetected(stop_phrases, text)
       THEN /\ is_recording' = FALSE
            /\ stopped_by' = stopped_by \cup {"phrase"}
            /\ process_thread' = "done"
       ELSE /\ process_thread' = "loop"
            /\ UNCHANGED <<is_recording, stopped_by>>
    /\ UNCHANGED <<audio_queue, main, record_thread, audio, session, captured,
                   dequeued>>
    /\ UNCHANGED nvars
    /\ UNCHANGED fvars

\* text = self.recognizer.recognize_google(audio) returns text; on a stop
\* phrase: self.is_recording = False; break.  Otherwise
\* self.text_segments.append(text).
process_audio_text(text) ==
    /\ process_thread = "recognize"
    /\ outcome' = [outcome EXCEPT ![audio] = [kind |-> "text", text |-> text]]
    /\ IF StopCommandDetected(stop_phrases, text)
       THEN /\ is_recording' = FALSE
            /\ stopped_by' = stopped_by \cup {"phrase"}
            /\ process_thread' = "done"
            /\ UNCHANGED text_segments
       ELSE /\ text_segments' = Append(text_segments, text)
            /\ process_thread' = "loop"
            /\ UNCHANGED <<is_recording, stopped_by>>
    /\ UNCHANGED <<audio_queue, main, record_thread, audio, session, captured,
                   dequeued>>
    /\ UNCHANGED nvars
    /\ UNCHANGED fvars

\* except sr.UnknownValueError: logger.debug(...)
process_audio_unknown ==
    /\ process_thread = "recognize"
    /\ outcome' = [outcome EXCEPT ![audio] = [kind |-> "unknown", text |-> <<>>]]
    /\ process_thread' = "loop"
    /\ UNCHANGED <<is_recording, audio_queue, text_segments, main,
                   record_thread, audio, session, captured, dequeued,
                   stopped_by>>
    /\ UNCHANGED nvars
    /\ UNCHANGED fvars

\* A variant of process_audio_error that ends the session on a request error.
process_audio_error_stops ==
    /\ process_thread = "recognize"
    /\ outcome' = [outcome EXCEPT ![audio] = [kind |-> "error", text |-> <<>>]]
    /\ is_recording' = FALSE
    /\ process_thread' = "done"
    /\ UNCHANGED <<audio_queue, text_segments, main, record_thread, audio,
                   session, captured, dequeued, stopped_by>>
    /\ UNCHANGED nvars
    /\ UNCHANGED fvars

\* except Exception as e: logger.error(...)   (sr.RequestError and the like)
process_audio_error ==
    /\ process_thread = "recognize"
    /\ outcome' = [outcome EXCEPT ![audio] = [kind |-> "error", text |-> <<>>]]
    /\ process_thread' = "loop"
    /\ UNCHANGED <<is_recording, audio_queue, text_segments, main,
                   record_thread, audio, session, captured, dequeued,
                   stopped_by>>
    /\ UNCHANGED nvars
    /\ UNCHANGED fvars

RecorderNext ==
    \/ record_calibrate
    \/ record_device_unavailable
    \/ record_start_record_thread
    \/ record_start_process_thread
    \/ record_wait
    \/ record_interrupt
    \/ record_join_record_thread
    \/ record_join_process_thread
    \/ record_voice_result
    \/ record_chunk_loop
    \/ record_chunk_call
    \/ record_chunk_listen
    \/ record_chunk_timeout
    \/ record_chunk_error
    \/ process_audio_loop
    \/ process_audio_get
    \/ process_audio_empty
    \/ \E text \in Texts : process_audio_text(text)
    \/ process_audio_unknown
    \/ process_audio_error

(***************************************************************************)
(* TextProcessor: Python str helpers.                                      *)
(***************************************************************************)
\* Python's Optional[str]: <<>> is None, <<t>> is the string t.
None == <<>>
Some(t) == <<t>>

\* text.split(sep) for a one-character separator
RECURSIVE Split(_, _)
Split(text, sep) ==
    IF \A i \in 1..Len(text) : text[i] # sep
    THEN <<text>>
    ELSE LET i == CHOOSE j \in 1..Len(text) :
                      /\ text[j] = sep
                      /\ \A k \in 1..(j - 1) : text[k] # sep
         IN <<SubSeq(text, 1, i - 1)>> \o Split(SubSeq(text, i + 1, Len(text)), sep)

\* line.startswith(prefix)
StartsWith(line, prefix) ==
    /\ Len(line) >= Len(prefix)
    /\ SubSeq(line, 1, Len(prefix)) = prefix

\* text.lstrip(chars) / text.rstrip(chars)
RECURSIVE LStrip(_, _)
LStrip(text, chars) ==
    IF text # <<>> /\ Head(text) \in chars THEN LStrip(Tail(text), chars) ELSE text

RECURSIVE RStrip(_, _)
RStrip(text, chars) ==
    IF text # <<>> /\ text[Len(text)] \in chars
    THEN RStrip(SubSeq(text, 1, Len(text) - 1), chars)
    ELSE text

\* text.strip(): whitespace on both ends
Whitespace == {" ", "\n", "\t", "\r"}
Strip(text) == RStrip(LStrip(text, Whitespace), Whitespace)

\* A variant of the slice that starts one element late: list[3:-1]
Slice3ToLast(list) == SubSeq(list, 4, Len(list) - 1)

\* list[2:-1]
Slice2ToLast(list) == SubSeq(list, 3, Len(list) - 1)

\* [f(x) for x in list]
MapStrip(list) == [i \in 1..Len(list) |-> Strip(list[i])]

\* The elements of a list, and the lists list(set(...)) may give (the order
\* of a Python set is not specified).
Elements(list) == {list[i] : i \in 1..Len(list)}
ListsOfSet(S) ==
    {l \in [1..Cardinality(S) -> S] : {l[i] : i \in 1..Cardinality(S)} = S}

(***************************************************************************)
(* TextProcessor.format_timestamp                                          *)
(***************************************************************************)
Digit == <<"0","1","2","3","4","5","6","7","8","9">>
Pad2(n) == <<Digit[((n \div 10) % 10) + 1], Digit[(n % 10) + 1]>>
Pad4(n) == Pad2(n \div 100) \o Pad2(n % 100)
DayNames == << <<"M","o","n">>, <<"T","u","e">>, <<"W","e","d">>, <<"T","h","u">>,
               <<"F","r","i">>, <<"S","a","t">>, <<"S","u","n">> >>

\* dt.strftime("<%Y-%m-%d %a %H:%M>")
format_timestamp(dt) ==
    <<"<">> \o Pad4(dt.year) \o <<"-">> \o Pad2(dt.month) \o <<"-">> \o Pad2(dt.day)
        \o <<" ">> \o DayNames[dt.weekday + 1]
        \o <<" ">> \o Pad2(dt.hour) \o <<":">> \o Pad2(dt.minute) \o <<">">>

\* Values of datetime.now()
Datetimes ==
    { [year |-> 2024, month |-> 1, day |-> 5, weekday |-> 4, hour |-> 9, minute |-> 30],
      [year |-> 2025, month |-> 12, day |-> 31, weekday |-> 2, hour |-> 23, minute |-> 7] }

(***************************************************************************)
(* TextProcessor._extract_tags                                             *)
(***************************************************************************)
FileTagsMarker == <<":","F","I","L","E","T","A","G","S",":">>

\* tags of one line: line.split(':')[2:-1], each stripped, when the line
\* starts with ':FILETAGS:'
LineTags(line) ==
    IF StartsWith(line, FileTagsMarker)
    THEN MapStrip(Slice2ToLast(Split(line, ":")))
    ELSE <<>>

RECURSIVE ExtendAll(_)
ExtendAll(lines) ==
    IF lines = <<>> THEN <<>> ELSE LineTags(Head(lines)) \o ExtendAll(Tail(lines))

_extract_tags(text) == ExtendAll(Split(text, "\n"))

(***************************************************************************)
(* TextProcessor: configuration, inputs and results.                       *)
(***************************************************************************)
TagMeeting == <<"m","e","e","t","i","n","g">>
TagError   == <<"e","r","r","o","r">>
TagWork    == <<"w","o","r","k">>
CategoryMeetings == <<"m","e","e","t","i","n","g","s">>
MeetingHeader == <<"*"," ","M","e","e","t","i","n","g"," ","N","o","t","e","s"," ">>
MeetingErrorPrefix ==
    <<"E","r","r","o","r"," ","p","r","o","c","e","s","s","i","n","g"," ",
      "m","e","e","t","i","n","g"," ","n","o","t","e","s",":"," ">>

\* Values of ProcessingConfig.default_tags
DefaultTagConfigs == {<<>>, <<TagWork>>, <<TagMeeting, TagWork>>}

\* Values of raw_text (the transcript handed to the processor)
RawStandup == <<"s","t","a","n","d","u","p"," ","a","t"," ","t","e","n">>
RawCallBob == <<"c","a","l","l"," ","B","o","b","."," ","b","u","y"," ","m","i","l","k">>
RawTexts == {<<>>, RawStandup, RawCallBob}

\* What `await self.model.process_text(raw_text, system_prompt)` may return
\* (any str) ...
OutTitleTags ==
    <<"*"," ","P","l","a","n","\n",":","F","I","L","E","T","A","G","S",":",
      "w","o","r","k",":","i","d","e","a",":">>
OutPlain == <<"*"," ","P","l","a","n">>
OutDupTags ==
    <<":","F","I","L","E","T","A","G","S",":","i","d","e","a",":","i","d","e","a",":",
      "\n","x">>
OutBlankFirst == <<"\n","#"," ","P","l","a","n">>
OutSpacedTags ==
    <<"#","#"," ","P","l","a","n"," ","\n",":","F","I","L","E","T","A","G","S",":",
      " ","i","d","e","a"," ",":","m","e","e","t","i","n","g",":">>
BackendOutputs == {OutTitleTags, OutPlain, OutDupTags, OutBlankFirst, OutSpacedTags}

\* ... or raise: str(e) of the exception.
ErrTimeout == <<"t","i","m","e","o","u","t">>
Err401     == <<"4","0","1">>
BackendErrors == {<<>>, ErrTimeout, Err401}

\* ProcessedText(content, title=None, tags=[], properties={}, error=None)
ProcessedText(content, title, tags, properties, error) ==
    [content |-> content, title |-> title, tags |-> tags,
     properties |-> properties, error |-> error]

NoResult == ProcessedText(<<>>, None, <<>>, {}, None)

\* How a call ends: it returns a ProcessedText or propagates an exception.
Returns(processed) == [pc |-> "returned", result |-> processed, raised |-> None]
Raises(err)        == [pc |-> "raised", result |-> NoResult, raised |-> Some(err)]

BackendPending == [kind |-> "pending", text |-> <<>>]

NotesInit ==
    /\ note_pc = "new"
    /\ raw_text = <<>>
    /\ default_tags = <<>>
    /\ result = NoResult
    /\ raised = None
    /\ method = "none"
    /\ backend = BackendPending

(***************************************************************************)
(* TextProcessor.__init__                                                  *)
(***************************************************************************)
\* self.config = config or ProcessingConfig()
TextProcessor_init ==
    /\ note_pc = "new"
    /\ \E tags \in DefaultTagConfigs : default_tags' = tags
    /\ note_pc' = "idle"
    /\ UNCHANGED <<raw_text, result, raised, method, backend>>
    /\ UNCHANGED rvars
    /\ UNCHANGED fvars

(***************************************************************************)
(* TextProcessor.process_meeting_notes                                     *)
(***************************************************************************)
\* The body of the try block after the backend has returned formatted_text.
\* `tags` is one of the lists list(set(tags)) may give.
MeetingNotesResults(formatted_text, dt) ==
    LET timestamp == format_timestamp(dt)
        content == MeetingHeader \o timestamp \o <<"\n">> \o formatted_text
        tags == _extract_tags(formatted_text) \o <<TagMeeting>> \o default_tags
    IN { Returns(ProcessedText(content, None, deduplicated,
                               { <<"CATEGORY", CategoryMeetings>>,
                                 <<"CREATED", timestamp>> },
                               None))
         : deduplicated \in ListsOfSet(Elements(tags)) }

\* except Exception as e: return ProcessedText(content=raw_text,
\* tags=["meeting", "error"], error=error_msg)
MeetingNotesReraises(raw, err) == Raises(err)
MeetingNotesOnFailure(raw, err) ==
    Returns(ProcessedText(raw, None, <<TagMeeting, TagError>>, {},
                          Some(MeetingErrorPrefix \o err)))

\* The call, up to `await self.model.process_text(raw_text, system_prompt)`.
process_meeting_notes_call ==
    /\ note_pc \in {"idle", "returned", "raised"}
    /\ \E raw \in RawTexts : raw_text' = raw
    /\ result' = NoResult
    /\ raised' = None
    /\ note_pc' = "await_meeting"
    /\ method' = "meeting"
    /\ backend' = BackendPending
    /\ UNCHANGED default_tags
    /\ UNCHANGED rvars
    /\ UNCHANGED fvars

\* The backend returns formatted_text.
process_meeting_notes_formatted ==
    /\ note_pc = "await_meeting"
    /\ \E formatted_text \in BackendOutputs, dt \in Datetimes :
         \E end \in MeetingNotesResults(formatted_text, dt) :
            /\ backend' = [kind |-> "returned", text |-> formatted_text]
            /\ note_pc' = end.pc
            /\ result' = end.result
            /\ raised' = end.raised
    /\ UNCHANGED <<raw_text, default_tags, method>>
    /\ UNCHANGED rvars
    /\ UNCHANGED fvars

\* The backend raises.
process_meeting_notes_failed ==
    /\ note_pc = "await_meeting"
    /\ \E err \in BackendErrors :
         LET end == MeetingNotesOnFailure(raw_text, err)
         IN /\ backend' = [kind |-> "raised", text |-> err]
            /\ note_pc' = end.pc
            /\ result' = end.result
            /\ raised' = end.raised
    /\ UNCHANGED <<raw_text, default_tags, method>>
    /\ UNCHANGED rvars
    /\ UNCHANGED fvars

\* The first line that is not empty, or "" when there is none.
RECURSIVE FirstNonEmpty(_)
FirstNonEmpty(lines) ==
    IF lines = <<>> THEN <<>>
    ELSE IF Head(lines) # <<>> THEN Head(lines)
    ELSE FirstNonEmpty(Tail(lines))

\* A variant of the title extraction that skips empty lines.
GeneralNotesTitleSkipsEmpty(formatted_text) ==
    Strip(LStrip(FirstNonEmpty(Split(formatted_text, "\n")), {"*", "#", " "}))

(***************************************************************************)
(* TextProcessor.process_general_notes                                     *)
(***************************************************************************)
\* first_line = formatted_text.split('\n')[0];
\* title = first_line.lstrip('*# ').strip()
GeneralNotesTitle(formatted_text) ==
    Strip(LStrip(Split(formatted_text, "\n")[1], {"*", "#", " "}))

\* The body of the try block after the backend has returned formatted_text.
GeneralNotesResult(formatted_text) ==
    Returns(ProcessedText(formatted_text, Some(GeneralNotesTitle(formatted_text)),
                          _extract_tags(formatted_text), {}, None))

\* except Exception as e: logger.error(...); raise
GeneralNotesDegrades(raw, err) ==
    Returns(ProcessedText(raw, None, <<TagError>>, {}, Some(err)))
GeneralNotesOnFailure(raw, err) == Raises(err)

\* The call, up to `await self.model.process_text(raw_text, system_prompt)`;
\* `context` only extends the prompt handed to the backend.
process_general_notes_call ==
    /\ note_pc \in {"idle", "returned", "raised"}
    /\ \E raw \in RawTexts : raw_text' = raw
    /\ result' = NoResult
    /\ raised' = None
    /\ note_pc' = "await_general"
    /\ method' = "general"
    /\ backend' = BackendPending
    /\ UNCHANGED default_tags
    /\ UNCHANGED rvars
    /\ UNCHANGED fvars

\* The backend returns formatted_text.
process_general_notes_formatted ==
    /\ note_pc = "await_general"
    /\ \E formatted_text \in BackendOutputs :
         LET end == GeneralNotesResult(formatted_text)
         IN /\ backend' = [kind |-> "returned", text |-> formatted_text]
            /\ note_pc' = end.pc
            /\ result' = end.result
            /\ raised' = end.raised
    /\ UNCHANGED <<raw_text, default_tags, method>>
    /\ UNCHANGED rvars
    /\ UNCHANGED fvars

\* The backend raises.
process_general_notes_failed ==
    /\ note_pc = "await_general"
    /\ \E err \in BackendErrors :
         LET end == GeneralNotesOnFailure(raw_text, err)
         IN /\ backend' = [kind |-> "raised", text |-> err]
            /\ note_pc' = end.pc
            /\ result' = end.result
            /\ raised' = end.raised
    /\ UNCHANGED <<raw_text, default_tags, method>>
    /\ UNCHANGED rvars
    /\ UNCHANGED fvars

NotesNext ==
    \/ TextProcessor_init
    \/ process_meeting_notes_call
    \/ process_meeting_notes_formatted
    \/ process_meeting_notes_failed
    \/ process_general_notes_call
    \/ process_general_notes_formatted
    \/ process_general_notes_failed

(***************************************************************************)
(* LocalModel.process_text                                                 *)
(***************************************************************************)
\* All texts of at most n characters over an alphabet.
TextsOver(alphabet, n) == UNION {[1..k -> alphabet] : k \in 0..n}

\* text.split(sep) for a separator of any length
RECURSIVE SplitStr(_, _)
SplitStr(text, sep) ==
    IF ~Contains(sep, text)
    THEN <<text>>
    ELSE LET i == CHOOSE j \in 0..(Len(text) - Len(sep)) :
                      /\ SubSeq(text, j + 1, j + Len(sep)) = sep
                      /\ \A k \in 0..(j - 1) :
                            SubSeq(text, k + 1, k + Len(sep)) # sep
         IN <<SubSeq(text, 1, i)>>
                \o SplitStr(SubSeq(text, i + Len(sep) + 1, Len(text)), sep)

\* for line in lines: if line: formatted.append(f"* {line.strip()}")
RECURSIVE LocalBullets(_)
LocalBullets(lines) ==
    IF lines = <<>> THEN <<>>
    ELSE IF Head(lines) # <<>>
         THEN <<(<<"*", " ">> \o Strip(Head(lines)))>> \o LocalBullets(Tail(lines))
         ELSE LocalBullets(Tail(lines))

\* LocalModel.process_text(text)
LocalModel_process_text(text) ==
    Join(<<"\n">>, LocalBullets(SplitStr(text, <<".", " ">>)))

\* Arguments of a call: "A. B. C." and every short text of letters, full
\* stops and spaces.
ABCSentences == <<"A", ".", " ", "B", ".", " ", "C", ".">>
LocalInputs == {ABCSentences} \cup TextsOver({"A", ".", " "}, MaxTextLen)

LocalInit ==
    /\ RecorderInit
    /\ NotesInit
    /\ fn_pc = "called"
    /\ fn_in \in LocalInputs
    /\ fn_out = <<>>

\* The call returns.
LocalModel_returns ==
    /\ fn_pc = "called"
    /\ fn_out' = LocalModel_process_text(fn_in)
    /\ fn_pc' = "returned"
    /\ UNCHANGED fn_in
    /\ UNCHANGED rvars
    /\ UNCHANGED nvars

LocalNext == LocalModel_returns

(***************************************************************************)
(* VoiceRecorder.__init__ and the stop-phrase test of process_audio.       *)
(***************************************************************************)
MaxPhraseLen == 2

\* self.stop_phrases = stop_phrases or ["stop recording", ...]: None and the
\* empty list (both <<>> here) select the default phrases.
VoiceRecorder_init(phrases) == IF phrases = <<>> THEN stop_phrases ELSE phrases

\* Configured phrases: none, one phrase of upper and lower case letters, or
\* two phrases.
CaseAlphabet == {"G", "g", "o"}
ConfiguredPhrases == TextsOver(CaseAlphabet, MaxPhraseLen) \ {<<>>}
StopPhraseConfigs ==
    {<<>>} \cup {<<p>> : p \in ConfiguredPhrases} \cup {<<<<"o", "g">>, <<"G", "o">>>>}

\* Recognized texts: the texts of the recorder and every short text of the
\* same letters.
StopCheckTexts == Texts \cup TextsOver(CaseAlphabet, MaxTextLen)

StopCheckInit ==
    /\ RecorderInit
    /\ NotesInit
    /\ fn_pc = "called"
    /\ fn_in \in [phrases : StopPhraseConfigs, text : StopCheckTexts]
    /\ fn_out = <<>>

\* if any(phrase in text.lower() for phrase in self.stop_phrases)
VoiceRecorder_stop_check ==
    /\ fn_pc = "called"
    /\ fn_out' = <<StopCommandDetected(VoiceRecorder_init(fn_in.phrases), fn_in.text)>>
    /\ fn_pc' = "returned"
    /\ UNCHANGED fn_in
    /\ UNCHANGED rvars
    /\ UNCHANGED nvars

StopCheckNext == VoiceRecorder_stop_check

(***************************************************************************)
(* TextProcessor._extract_tags applied to its own output.                  *)
(***************************************************************************)
\* The line that _extract_tags reads tags from: ':FILETAGS:' and then every
\* tag followed by ':'.
RECURSIVE TagBlockLine(_)
TagBlockLine(tags) ==
    IF tags = <<>> THEN FileTagsMarker
    ELSE LET front == SubSeq(tags, 1, Len(tags) - 1)
         IN TagBlockLine(front) \o tags[Len(tags)] \o <<":">>

\* Texts to extract from: the backend outputs, and a ':FILETAGS:' line
\* continued by every short text of a letter, colons and spaces.
TagTexts ==
    BackendOutputs \cup {FileTagsMarker \o body : body \in TextsOver({"a", ":", " "}, MaxTextLen)}

TagsInit ==
    /\ RecorderInit
    /\ NotesInit
    /\ fn_pc = "called"
    /\ fn_in \in TagTexts
    /\ fn_out = <<>>

\* list(set(self._extract_tags(text)))
extract_tags_deduplicated ==
    /\ fn_pc = "called"
    /\ \E tags \in ListsOfSet(Elements(_extract_tags(fn_in))) : fn_out' = <<tags>>
    /\ fn_pc' = "extracted"
    /\ UNCHANGED fn_in
    /\ UNCHANGED rvars
    /\ UNCHANGED nvars

\* self._extract_tags(line) for the tag-block line of the extracted tags
extract_tags_again ==
    /\ fn_pc = "extracted"
    /\ fn_out' = <<fn_out[1], _extract_tags(TagBlockLine(fn_out[1]))>>
    /\ fn_pc' = "returned"
    /\ UNCHANGED fn_in
    /\ UNCHANGED rvars
    /\ UNCHANGED nvars

TagsNext ==
    \/ extract_tags_deduplicated
    \/ extract_tags_again

(***************************************************************************)
(* Specifications.                                                         *)
(***************************************************************************)
vars == <<rvars, nvars, fvars>>

\* No function is called alone.
FunctionsIdle ==
    /\ fn_pc = "idle"
    /\ fn_in = <<>>
    /\ fn_out = <<>>

Init == RecorderInit /\ NotesInit /\ FunctionsIdle

\* One record_voice() call.
Next == RecorderNext
Spec == Init /\ [][Next]_vars

\* The same, with each thread scheduled as long as it can take a step: the
\* controller's own steps (the KeyboardInterrupt is an event of the
\* environment, not a step it owes), the producer's and the consumer's.
ControllerNext ==
    \/ record_calibrate
    \/ record_device_unavailable
    \/ record_start_record_thread
    \/ record_start_process_thread
    \/ record_wait
    \/ record_join_record_thread
    \/ record_join_process_thread
    \/ record_voice_result

ProducerNext ==
    \/ record_chunk_loop
    \/ record_chunk_call
    \/ record_chunk_listen
    \/ record_chunk_timeout
    \/ record_chunk_error

ConsumerNext ==
    \/ process_audio_loop
    \/ process_audio_get
    \/ process_audio_empty
    \/ \E text \in Texts : process_audio_text(text)
    \/ process_audio_unknown
    \/ process_audio_error

LiveSpec ==
    /\ Init
    /\ [][Next]_vars
    /\ WF_vars(ControllerNext)
    /\ WF_vars(ProducerNext)
    /\ WF_vars(ConsumerNext)

\* One TextProcessor and the calls made on it.
NotesSpec == Init /\ [][NotesNext]_vars

\* One call of LocalModel.process_text.
LocalSpec == LocalInit /\ [][LocalNext]_vars

\* One stop-phrase test of a VoiceRecorder built with some phrase list.
StopCheckSpec == StopCheckInit /\ [][StopCheckNext]_vars

\* Tags extracted from a text, written as a tag-block line and extracted
\* again.
TagsSpec == TagsInit /\ [][TagsNext]_vars

(***************************************************************************)
(* Properties of VoiceRecorder.                                            *)
(***************************************************************************)
\* Segment k was recognized as text holding a stop phrase.
StopRecognizedAt(k) ==
    /\ outcome[k].kind = "text"
    /\ StopCommandDetected(stop_phrases, outcome[k].text)

StopRecognized == \E k \in 1..MaxCaptures : StopRecognizedAt(k)

\* The texts recognized for segments 1..n, without the stop segment, in the
\* order in which the segments were captured.
RECURSIVE RecognizedTexts(_)
RecognizedTexts(n) ==
    IF n = 0 THEN <<>>
    ELSE IF outcome[n].kind = "text" /\ ~StopRecognizedAt(n)
         THEN Append(RecognizedTexts(n - 1), outcome[n].text)
         ELSE RecognizedTexts(n - 1)

BothThreadsExited == record_thread = "done" /\ process_thread = "done"

\* C1: when no recognized segment holds a stop phrase, the string record()
\* returns is the recognized texts joined in the order of capture, whatever
\* the interleaving of producer and consumer was.
C1_JoinInCaptureOrder ==
    (session.kind = "recorded" /\ ~StopRecognized)
        => session.text = JoinSegments(RecognizedTexts(MaxCaptures))

\* record() has returned two different texts and no stop phrase was heard.
C1_Witness ==
    /\ session.kind = "recorded"
    /\ ~StopRecognized
    /\ Len(text_segments) >= 2
    /\ text_segments[1] # text_segments[2]
    /\ session.text = JoinSegments(text_segments)

\* C2: once the text recognized for a segment holds a stop phrase, nothing is
\* appended to the transcript any more, whatever is still in the queue.
C2_NoAppendAfterStop ==
    [][StopRecognized => text_segments' = text_segments]_vars

\* A stop phrase was recognized while later segments were still queued, and
\* both threads have exited.
C2_Witness ==
    /\ StopRecognized
    /\ audio_queue # <<>>
    /\ text_segments # <<>>
    /\ BothThreadsExited

\* C3: once the session has been stopped (stop phrase, interrupt or device
\* error), both threads exit and record() returns.
C3_StopLeadsToReturn ==
    (stopped_by # {}) ~> (BothThreadsExited /\ main \in {"returned", "done"})

\* record() has returned after all three kinds of stop request were made.
C3_Witness ==
    /\ stopped_by = {"phrase", "interrupt", "device_error"}
    /\ BothThreadsExited
    /\ main = "returned"

\* C4: the text of the segment in which the stop phrase is recognized is not
\* part of the transcript: record() returns the join of the texts recognized
\* strictly before the stop segment.
C4_StopSegmentExcluded ==
    \A k \in 1..MaxCaptures :
        (session.kind = "recorded" /\ StopRecognizedAt(k))
            => session.text = JoinSegments(RecognizedTexts(k - 1))

\* "Alice met Bob." then "stop recording": record() returns "Alice met Bob."
C4_Witness ==
    /\ session.kind = "recorded"
    /\ outcome[1] = [kind |-> "text", text |-> AliceMetBob]
    /\ outcome[2] = [kind |-> "text", text |-> StopRecording]
    /\ session.text = AliceMetBob

\* C5: the number of segments in the queue never exceeds the configured
\* capacity (the producer blocks or drops instead).  queue.Queue() is built
\* with no capacity; QueueCapacity stands for any capacity smaller than the
\* number of segments captured in a session.
QueueCapacity == MaxCaptures - 1
C5_QueueWithinCapacity == Len(audio_queue) <= QueueCapacity

\* C6: every enqueued segment is dequeued exactly once and in FIFO order, and
\* when both threads have exited no enqueued segment is left in the queue.
C6_ConsumedExactlyOnceInOrder ==
    /\ dequeued = [i \in 1..Len(dequeued) |-> i]
    /\ audio_queue = [i \in 1..(captured - Len(dequeued)) |-> Len(dequeued) + i]
    /\ BothThreadsExited => audio_queue = <<>>

\* C7: the caller gets a transcript only when the session was not ended by a
\* device error in the producer and at least one segment was appended;
\* otherwise the session is a failure.
C7_FailureOnDeviceErrorOrNoSegments ==
    main = "done" =>
        (session.kind = "transcript"
            <=> (stopped_by # {"device_error"} /\ Len(text_segments) >= 1))

\* C8: a capture timeout, unintelligible audio or a request failure leaves the
\* recording flag and the transcript unchanged and the loop continues; the
\* transcript only grows, and in the end it holds every recognized text.
ConsumerChunkFailed ==
    /\ process_thread = "recognize"
    /\ outcome'[audio].kind \in {"unknown", "error"}

ProducerTimedOut ==
    /\ record_thread = "listen"
    /\ record_thread' # "listen"
    /\ captured' = captured
    /\ "device_error" \notin stopped_by'

SessionStarted == main # "calibrate"

C13_StateOnlyMovesForward ==
    [][ /\ (SessionStarted /\ ~is_recording) => ~is_recording'
        /\ (stopped_by' # stopped_by) => ~is_recording'
        /\ (is_recording' /\ ~is_recording) => (~SessionStarted /\ stopped_by = {})
      ]_vars

\* The session ended after several stop requests.
C13_Witness ==
    /\ Cardinality(stopped_by) >= 2
    /\ ~is_recording
    /\ main = "done"

ProducerClearsOnDeviceError ==
    /\ record_thread = "listen"
    /\ record_thread' = "done"
    /\ "device_error" \in stopped_by'

ConsumerClearsOnStopPhrase ==
    /\ process_thread = "recognize"
    /\ process_thread' = "done"
    /\ outcome'[audio].kind = "text"
    /\ StopCommandDetected(stop_phrases, outcome'[audio].text)
    /\ "phrase" \in stopped_by'

Stopped == SessionStarted /\ ~is_recording

\* C18 (as stated): once the flag has been cleared, the producer starts no
\* capture call.
C18_NoCaptureCallStartsAfterStop ==
    [][Stopped => ~(record_thread = "call" /\ record_thread' = "listen")]_vars

\* How far the producer is from its exit.
ProducerRank(at) ==
    CASE at = "done"      -> 0
      [] at = "loop"      -> 1
      [] at = "listen"    -> 2
      [] at = "call"      -> 3
      [] at = "unstarted" -> 4

\* C18 (amended): once the flag has been cleared, the producer begins no new
\* loop iteration, and each of its steps brings it nearer to its exit: the
\* capture call that is in flight, or whose loop test had already passed
\* when the flag was cleared, is still made and completed.  A segment is
\* enqueued only by the return of that call, so at most one further segment
\* is enqueued.
C18_AtMostOneCaptureAfterStop ==
    [][Stopped =>
          /\ ~(record_thread = "loop" /\ record_thread' = "call")
          /\ (record_thread' # record_thread) =>
                 ProducerRank(record_thread') < ProducerRank(record_thread)
          /\ (captured' # captured \/ audio_queue' # audio_queue) =>
                 \/ /\ record_thread = "listen"
                    /\ record_thread' = "loop"
                    /\ captured' = captured + 1
                    /\ audio_queue' = Append(audio_queue, captured')
                 \/ /\ record_thread' = record_thread
                    /\ captured' = captured
                    /\ Len(audio_queue') < Len(audio_queue)
      ]_vars

\* The flag is cleared and record() waits for the producer, whose capture
\* call is in flight.
C18_Witness ==
    /\ Stopped
    /\ record_thread = "listen"
    /\ main = "join_record_thread"

\* C19: when two consecutive segments have been recognized as text and the
\* two texts joined by a space hold a stop phrase, the session has been
\* stopped by a stop phrase.
C19_StopPhraseAcrossSegments ==
    \A k \in 1..(MaxCaptures - 1) :
        ( /\ outcome[k].kind = "text"
          /\ outcome[k + 1].kind = "text"
          /\ StopCommandDetected(stop_phrases,
                                 JoinSegments(<<outcome[k].text, outcome[k + 1].text>>)) )
        => "phrase" \in stopped_by

\* C20: whenever process_audio has terminated, the recording flag is
\* cleared.
C20_ConsumerExitsOnlyWhenStopped ==
    process_thread = "done" => ~is_recording

\* The consumer has exited while a capture call of the producer is still in
\* flight.
C20_Witness ==
    /\ process_thread = "done"
    /\ record_thread = "listen"
    /\ ~is_recording

\* record() has read the transcript list (a session that ended before its
\* threads were started never reads it).
TranscriptRead ==
    \/ main = "returned"
    \/ main = "done" /\ process_thread # "unstarted"

\* C21: the transcript list changes only by an append of the consumer; the
\* controller reads it only when both threads have exited, reads every text
\* appended, and nothing is appended after the read.
C21_TranscriptReadAfterThreadsExit ==
    [][ /\ (text_segments' # text_segments) =>
              /\ process_thread = "recognize"
              /\ text_segments' = Append(text_segments, outcome'[audio].text)
              /\ main' = main
              /\ record_thread' = record_thread
        /\ (~TranscriptRead /\ TranscriptRead') =>
              /\ BothThreadsExited
              /\ session'.text = JoinSegments(text_segments)
        /\ TranscriptRead =>
              /\ text_segments' = text_segments
              /\ BothThreadsExited'
      ]_vars

\* record_voice() has returned a transcript of several texts after both
\* threads exited.
C21_Witness ==
    /\ main = "done"
    /\ session.kind = "transcript"
    /\ Len(text_segments) >= 2
    /\ session.text = JoinSegments(text_segments)
    /\ BothThreadsExited

\* C15: for every configured phrase list and recognized text, a stop is
\* detected exactly when some configured phrase, lower-cased, occurs in the
\* lower-cased text.
CaseInsensitiveMatch(phrases, text) ==
    \E k \in 1..Len(phrases) : Contains(Lower(phrases[k]), Lower(text))

C15_CaseInsensitiveForEveryPhraseSet ==
    fn_pc = "returned" =>
        (fn_out[1] <=> CaseInsensitiveMatch(VoiceRecorder_init(fn_in.phrases), fn_in.text))

(***************************************************************************)
(* Properties of TextProcessor.                                            *)
(***************************************************************************)
\* C9: process_meeting_notes never raises; when the backend call fails it
\* returns the raw text as content, tags holding "meeting" and "error", and
\* the error field set; when the backend call succeeds the error field is
\* empty.
C9_MeetingNotesNeverRaise ==
    method = "meeting" =>
        /\ note_pc # "raised"
        /\ raised = None
        /\ backend.kind = "raised" =>
              /\ note_pc = "returned"
              /\ result.content = raw_text
              /\ {TagMeeting, TagError} \subseteq Elements(result.tags)
              /\ result.error # None
        /\ backend.kind = "returned" =>
              /\ note_pc = "returned"
              /\ result.error = None

\* The backend raised "timeout" on "call Bob. buy milk" and a note came back.
C9_Witness ==
    /\ method = "meeting"
    /\ backend = [kind |-> "raised", text |-> ErrTimeout]
    /\ note_pc = "returned"
    /\ result.content = RawCallBob

\* C10: when the backend call fails, process_general_notes propagates the
\* failure and returns no ProcessedText.
C10_GeneralNotesPropagate ==
    (method = "general" /\ backend.kind = "raised") =>
        /\ note_pc = "raised"
        /\ raised = Some(backend.text)
        /\ result = NoResult

\* The backend raised inside process_general_notes and the caller got it.
C10_Witness ==
    /\ method = "general"
    /\ backend = [kind |-> "raised", text |-> Err401]
    /\ note_pc = "raised"
    /\ raw_text = RawStandup

\* C12: every ProcessedText returned by process_meeting_notes or
\* process_general_notes has tags without duplicates that hold every
\* configured default tag, whatever the backend output was.
NoDuplicates(list) ==
    \A i, j \in 1..Len(list) : i # j => list[i] # list[j]

C12_TagsDeduplicatedWithDefaults ==
    (note_pc = "returned" /\ backend.kind = "returned") =>
        /\ NoDuplicates(result.tags)
        /\ Elements(default_tags) \subseteq Elements(result.tags)

\* C16 (as stated): the title of a general note is the first non-empty line
\* of the backend output without its leading '*', '#' and spaces.
HeadingMarkers == {"*", "#", " "}

C16_TitleFromFirstNonEmptyLine ==
    (note_pc = "returned" /\ method = "general") =>
        result.title =
            Some(Strip(LStrip(FirstNonEmpty(Split(backend.text, "\n")), HeadingMarkers)))

\* The text before the first line feed.
FirstLine(text) ==
    LET n == CHOOSE n \in 0..Len(text) :
                 /\ \A k \in 1..n : text[k] # "\n"
                 /\ n = Len(text) \/ text[n + 1] = "\n"
    IN SubSeq(text, 1, n)

\* C16 (amended): the title of a general note is taken from the first line
\* of the backend output, empty or not: that line without its leading '*',
\* '#' and spaces and without surrounding whitespace.  An output that begins
\* with an empty line gives the empty title.
C16_TitleFromFirstLine ==
    (note_pc = "returned" /\ method = "general") =>
        /\ result.title = Some(Strip(LStrip(FirstLine(backend.text), HeadingMarkers)))
        /\ Head(backend.text) = "\n" => result.title = Some(<<>>)

\* A general note whose backend output begins with an empty line.
C16_Witness ==
    /\ note_pc = "returned"
    /\ method = "general"
    /\ backend.text = OutBlankFirst
    /\ result.title = Some(<<>>)

\* C17: the deduplicated tags extracted from a text, written as one
\* ':FILETAGS:' line and extracted again, are the same set of tags (and, the
\* line keeping their order, the same list).
C17_ExtractTagsIdempotent ==
    (fn_pc = "returned" /\ Len(fn_out) = 2) =>
        /\ Elements(fn_out[2]) = Elements(fn_out[1])
        /\ fn_out[2] = fn_out[1]

\* Two or more tags went through the round trip.
C17_Witness ==
    /\ fn_pc = "returned"
    /\ Len(fn_out) = 2
    /\ Cardinality(Elements(fn_out[1])) >= 2

(***************************************************************************)
(* Properties of LocalModel.                                               *)
(***************************************************************************)
\* C11: on non-empty input LocalModel.process_text returns one bullet per
\* sentence without the sentence terminator: every line of the output is a
\* bullet, and "A. B. C." gives exactly "* A\n* B\n* C".
ABCBullets == <<"*", " ", "A", "\n", "*", " ", "B", "\n", "*", " ", "C">>

C11_LocalBulletsWithoutTerminator ==
    (fn_pc = "returned" /\ fn_in # <<>>) =>
        /\ fn_out # <<>> =>
              \A i \in 1..Len(Split(fn_out, "\n")) :
                  StartsWith(Split(fn_out, "\n")[i], <<"*", " ">>)
        /\ fn_in = ABCSentences => fn_out = ABCBullets
====
